---- MODULE Spec2Model ----
(***************************************************************************)
(* A model of smartie.py, the driver for SureElectronics Smartie LCDs.     *)
(*                                                                         *)
(* The driver owns one serial transport (self.lcd) and keeps no other      *)
(* state.  The model records what reaches the transport and the clock:     *)
(* `trace` is the sequence of transport writes and time.sleep calls since  *)
(* the Smartie object was constructed, `last` describes the most recent    *)
(* public call and where its events start in `trace`, and `calls` counts   *)
(* the public calls made so far.                                           *)
(*                                                                         *)
(* Text is a sequence of Unicode code points, a frame is a sequence of     *)
(* bytes, and an optional integer argument is <<>> (None) or <<n>>.        *)
(***************************************************************************)
EXTENDS Integers, Sequences, FiniteSets, TLC

VARIABLES trace, last, calls

vars == <<trace, last, calls>>

(***************************************************************************)
(* Module constants of smartie.py.                                         *)
(***************************************************************************)
SCREEN_WIDTH == 20
SCREEN_LINES == 4

(***************************************************************************)
(* Bounds of the model.                                                    *)
(***************************************************************************)
MaxCalls == 1      \* public calls per session
MaxLine  == 5      \* line arguments range over -1..MaxLine, and None
MaxCount == 2      \* flash counts range over -1..MaxCount
MaxLines == 6      \* longest list handed to write_lines / write_lines_scroll

(***************************************************************************)
(* Python helpers.                                                         *)
(***************************************************************************)
None == <<>>
Some(n) == <<n>>

Min(a, b) == IF a < b THEN a ELSE b

\* n copies of the element c
Rep(c, n) == [i \in 1..n |-> c]

\* s[a:b] for 0 <= a, 0 <= b
Slice(s, a, b) == SubSeq(s, a + 1, Min(b, Len(s)))

RECURSIVE Concat(_)
\* b''.join(parts) / ''.join(parts)
Concat(parts) ==
    IF parts = <<>> THEN <<>> ELSE Head(parts) \o Concat(Tail(parts))

SPACE == 32

\* bytes.ljust(width) and str.ljust(width, " ")
ljust(s, width) ==
    IF Len(s) >= width THEN s ELSE s \o Rep(SPACE, width - Len(s))

\* str.rjust(width, " ")
rjust(s, width) ==
    IF Len(s) >= width THEN s ELSE Rep(SPACE, width - Len(s)) \o s

\* str.center(width, " "): CPython puts marg/2 + (marg & width & 1) on the left
center(s, width) ==
    IF Len(s) >= width THEN s
    ELSE LET marg  == width - Len(s)
             left  == (marg \div 2) + (IF marg % 2 = 1 /\ width % 2 = 1 THEN 1 ELSE 0)
         IN  Rep(SPACE, left) \o s \o Rep(SPACE, marg - left)

(***************************************************************************)
(* chr(n).encode(): the UTF-8 encoding of code point n.  chr raises        *)
(* ValueError outside range(0x110000); encode raises UnicodeEncodeError    *)
(* for a surrogate.                                                        *)
(***************************************************************************)
chr_error(n) ==
    IF n < 0 \/ n > 1114111 THEN "ValueError"
    ELSE IF n >= 55296 /\ n <= 57343 THEN "UnicodeEncodeError"
    ELSE "none"

chr_encode(n) ==
    IF chr_error(n) # "none" THEN <<>>
    ELSE IF n < 128 THEN <<n>>
    ELSE IF n < 2048 THEN <<192 + (n \div 64), 128 + (n % 64)>>
    ELSE IF n < 65536 THEN
        <<224 + (n \div 4096), 128 + ((n \div 64) % 64), 128 + (n % 64)>>
    ELSE <<240 + (n \div 262144), 128 + ((n \div 4096) % 64),
           128 + ((n \div 64) % 64), 128 + (n % 64)>>

(***************************************************************************)
(* unicodedata.normalize('NFKD', data) followed by                         *)
(* data.encode('ascii', 'ignore'), on the code points the model draws      *)
(* text from: ASCII is unchanged, U+00E9 decomposes to e + U+0301, U+FB01  *)
(* (the fi ligature) to f + i, U+20AC (the euro sign) has no               *)
(* decomposition.                                                          *)
(***************************************************************************)
NFKD_char(c) ==
    IF c = 233 THEN <<101, 769>>
    ELSE IF c = 64257 THEN <<102, 105>>
    ELSE <<c>>

normalize(data) == Concat([i \in 1..Len(data) |-> NFKD_char(data[i])])

encode_ascii_ignore(data) ==
    Concat([i \in 1..Len(data) |-> IF data[i] < 128 THEN <<data[i]>> ELSE <<>>])

(***************************************************************************)
(* Events of the trace.                                                    *)
(***************************************************************************)
Write(bytes) == [kind |-> "write", bytes |-> bytes, dur |-> "-"]
Sleep(dur)   == [kind |-> "sleep", bytes |-> <<>>, dur |-> dur]

\* Smartie.__init__: the init sequence goes straight to the transport
init_events == <<Write(<<254, 86, 0>>)>>

\* command that sends the init sequence again before every command
command_reinit(cmd) == init_events \o <<Write(<<254>> \o cmd), Sleep("DELAY")>>

\* Smartie.command
command(cmd) == <<Write(<<254>> \o cmd), Sleep("DELAY")>>

\* write_line that pads but does not cut the field to 20 bytes
write_line_uncut(data, line) ==
    LET line1 == IF line = None \/ line[1] < 1 \/ line[1] > 4 THEN 1 ELSE line[1]
        data2 == encode_ascii_ignore(normalize(data))
    IN  command(<<71, 1>> \o chr_encode(line1) \o ljust(data2, 20))

\* write_line that does not check the upper end of the line range
write_line_unchecked(data, line) ==
    LET line1 == IF line = None \/ line[1] < 1 THEN 1 ELSE line[1]
        data2 == encode_ascii_ignore(normalize(data))
    IN  command(<<71, 1>> \o chr_encode(line1) \o Slice(ljust(data2, 20), 0, 20))

\* Smartie.write_line
write_line(data, line) ==
    LET line1 == IF line = None \/ line[1] < 1 \/ line[1] > 4 THEN 1 ELSE line[1]
        data1 == normalize(data)
        data2 == encode_ascii_ignore(data1)
        data3 == Slice(ljust(data2, 20), 0, 20)
    IN  command(<<71, 1>> \o chr_encode(line1) \o data3)

\* Smartie.backlight_on
backlight_on == command(<<66, 0>>)

\* Smartie.backlight_off
backlight_off == command(<<70>>)

\* Smartie.backlight_toggle_on
backlight_toggle_on(switch) ==
    IF switch = TRUE THEN backlight_on ELSE backlight_off

\* Smartie.set_contrast: chr(amount) is evaluated before command is called
set_contrast(amount) ==
    IF chr_error(amount) # "none" THEN <<>>
    ELSE command(<<80>> \o chr_encode(amount))

\* Smartie.show_temperature
show_temperature(line) ==
    IF chr_error(line) # "none" THEN <<>>
    ELSE command(<<87>> \o chr_encode(line))

RECURSIVE clear_screen_loop(_)
\* for line in range(1, SCREEN_LINES+1)
clear_screen_loop(line) ==
    IF line < SCREEN_LINES + 1
    THEN write_line(<<SPACE>>, Some(line)) \o clear_screen_loop(line + 1)
    ELSE <<>>

\* clear_screen that stops one line short: range(1, SCREEN_LINES)
clear_screen_short ==
    write_line(<<SPACE>>, Some(1)) \o write_line(<<SPACE>>, Some(2)) \o
    write_line(<<SPACE>>, Some(3))

\* Smartie.clear_screen
clear_screen == clear_screen_loop(1)

\* str.lower() on the align argument
lower(align) ==
    IF align = "C" THEN "c"
    ELSE IF align = "R" THEN "r"
    ELSE IF align = "L" THEN "l"
    ELSE align

\* write_line_aligned that compares align without lower()
write_line_aligned_cased(text, line, align) ==
    write_line(IF align = "c" THEN center(text, SCREEN_WIDTH)
               ELSE IF align = "r" THEN rjust(text, SCREEN_WIDTH)
               ELSE ljust(text, SCREEN_WIDTH),
               line)

\* write_line_aligned that pads on the left in its else branch
write_line_aligned_else_right(text, line, align) ==
    write_line(IF lower(align) = "c" THEN center(text, SCREEN_WIDTH)
               ELSE rjust(text, SCREEN_WIDTH),
               line)

\* Smartie.write_line_aligned
write_line_aligned(text, line, align) ==
    LET align1 == lower(align)
        text1  == IF align1 = "c" THEN center(text, SCREEN_WIDTH)
                  ELSE IF align1 = "r" THEN rjust(text, SCREEN_WIDTH)
                  ELSE ljust(text, SCREEN_WIDTH)
    IN  write_line(text1, line)

RECURSIVE flash_loop(_, _, _, _, _)
\* while i < count
flash_loop(i, text, line, count, tick) ==
    IF i < count
    THEN write_line(text, line) \o <<Sleep(tick)>> \o
         write_line(<<>>, line) \o <<Sleep(tick)>> \o
         flash_loop(i + 1, text, line, count, tick)
    ELSE <<>>

\* write_line_flash that ends on the blank frame of the last flash
write_line_flash_blank(text, line, count, tick) ==
    IF count > 0 THEN flash_loop(0, text, line, count, tick)
    ELSE write_line(text, line)

\* Smartie.write_line_flash
write_line_flash(text, line, count, tick) ==
    flash_loop(0, text, line, count, tick) \o write_line(text, line)

RECURSIVE wrapped_loop(_, _, _)
\* for i in range(0, len(data), 20)
wrapped_loop(data, i, row) ==
    IF i < Len(data)
    THEN write_line(Slice(data, i, i + 20), Some(row)) \o
         wrapped_loop(data, i + 20, row + 1)
    ELSE <<>>

\* write_data_wrapped that keeps the first 80 characters
write_data_wrapped_80(text) == wrapped_loop(Slice(text, 0, 80), 0, 1)

\* write_data_wrapped that does not cut the text
write_data_wrapped_all(text) == wrapped_loop(text, 0, 1)

\* Smartie.write_data_wrapped
write_data_wrapped(text) ==
    LET data == Slice(text, 0, 79)
    IN  wrapped_loop(data, 0, 1)

RECURSIVE write_lines_loop(_, _)
\* for linetext in texts
write_lines_loop(texts, line) ==
    IF texts # <<>>
    THEN write_line(Head(texts), Some(line)) \o write_lines_loop(Tail(texts), line + 1)
    ELSE <<>>

\* write_lines that does not cut the list to the screen
write_lines_uncut(textlines) == write_lines_loop(textlines, 1)

\* write_lines that blanks the lines it has no entry for
write_lines_blanking(textlines) ==
    LET texts == Slice(textlines, 0, SCREEN_LINES)
    IN  write_lines_loop(texts \o Rep(<<>>, SCREEN_LINES - Len(texts)), 1)

\* Smartie.write_lines
write_lines(textlines) ==
    LET texts == Slice(textlines, 0, SCREEN_LINES)
    IN  write_lines_loop(texts, 1)

RECURSIVE scroll_loop_to_end(_, _, _, _)
\* the scroll loop run until the list is used up: while startitem < numberoflines
scroll_loop_to_end(startitem, textlines, numberoflines, speed) ==
    IF startitem < numberoflines
    THEN write_lines(Slice(textlines, startitem, startitem + SCREEN_LINES)) \o
         <<Sleep(speed)>> \o
         scroll_loop_to_end(startitem + 1, textlines, numberoflines, speed)
    ELSE <<>>

RECURSIVE scroll_loop_one_more(_, _, _, _)
\* the scroll loop with one window more: startitem <= numberoflines-(SCREEN_LINES-1)
scroll_loop_one_more(startitem, textlines, numberoflines, speed) ==
    IF startitem <= numberoflines - (SCREEN_LINES - 1)
    THEN write_lines(Slice(textlines, startitem, startitem + SCREEN_LINES)) \o
         <<Sleep(speed)>> \o
         scroll_loop_one_more(startitem + 1, textlines, numberoflines, speed)
    ELSE <<>>

RECURSIVE scroll_loop(_, _, _, _)
\* while startitem < (numberoflines-(SCREEN_LINES-1))
scroll_loop(startitem, textlines, numberoflines, speed) ==
    IF startitem < numberoflines - (SCREEN_LINES - 1)
    THEN LET displaytexts == Slice(textlines, startitem, startitem + SCREEN_LINES)
         IN  write_lines(displaytexts) \o <<Sleep(speed)>> \o
             scroll_loop(startitem + 1, textlines, numberoflines, speed)
    ELSE <<>>

\* write_lines_scroll that scrolls from SCREEN_LINES entries on
write_lines_scroll_early(textlines, speed) ==
    IF Len(textlines) < SCREEN_LINES
    THEN write_lines(textlines)
    ELSE scroll_loop(0, textlines, Len(textlines), speed)

\* Smartie.write_lines_scroll
write_lines_scroll(textlines, speed) ==
    LET numberoflines == Len(textlines)
    IN  IF numberoflines < SCREEN_LINES + 1
        THEN write_lines(textlines)
        ELSE scroll_loop(0, textlines, numberoflines, speed)

(***************************************************************************)
(* The string literals of Smartie.demo, as code points.                    *)
(***************************************************************************)
demo_left     == <<76, 101, 102, 116>>
demo_right    == <<82, 105, 103, 104, 116>>
demo_center   == <<67, 101, 110, 116, 101, 114>>
demo_flash    == <<70, 108, 97, 115, 104>>
demo_wrapped  ==
    <<116, 104, 105, 115, 32, 105, 115, 32, 97, 32, 108, 111, 110, 103, 32,
      112, 105, 101, 99, 101, 32, 111, 102, 32, 116, 101, 120, 116, 32, 116,
      104, 97, 116, 32, 119, 105, 108, 108, 32, 98, 101, 32, 119, 114, 97,
      112, 112, 101, 100, 32, 97, 115, 32, 114, 101, 113, 117, 105, 114, 101,
      100, 33>>
demo_list     ==
    << <<49, 32, 65, 115, 32, 97, 32, 108, 105, 115, 116>>, <<50>>, <<51>>, <<52>> >>
demo_scroll   ==
    << <<49, 32, 65, 115, 32, 97, 32, 115, 99, 114, 111, 108, 108, 105, 110,
         103, 32, 108, 105, 115, 116>>,
       <<50>>, <<51>>, <<52>>, <<53>>, <<54>>, <<55>>, <<56>> >>

\* Smartie.demo
demo ==
    clear_screen \o
    backlight_toggle_on(TRUE) \o
    write_line(demo_left, Some(1)) \o
    write_line_aligned(demo_right, Some(2), "r") \o
    write_line_aligned(demo_center, Some(3), "c") \o
    write_line_flash(demo_flash, Some(4), 3, "0.6") \o
    <<Sleep("2")>> \o
    write_data_wrapped(demo_wrapped) \o
    <<Sleep("2")>> \o
    write_lines(demo_list) \o
    <<Sleep("3")>> \o
    clear_screen \o
    write_lines_scroll(demo_scroll, "0.5") \o
    <<Sleep("2")>> \o
    clear_screen \o
    show_temperature(1) \o
    <<Sleep("2")>> \o
    clear_screen \o
    <<Sleep("2")>> \o
    backlight_toggle_on(FALSE)

(***************************************************************************)
(* Inputs of the public operations.                                        *)
(***************************************************************************)
\* runs of "A" (short, one short of the width, the width) with nothing, an
\* accented letter, an unencodable character or a ligature after them
RunLens == {0, 2, SCREEN_WIDTH - 1, SCREEN_WIDTH}
Tails   == {<<>>, <<233>>, <<8364>>, <<64257>>}
Texts   == {Rep(65, n) \o t : n \in RunLens, t \in Tails}
\* the texts that fit a line with room to spare
ShortTexts == {Rep(65, n) \o t : n \in {0, 2}, t \in Tails}

Lines   == {None} \cup {Some(n) : n \in -1..MaxLine}
\* for the operations that hand their line argument on to write_line
PassedLines == {None, Some(2), Some(MaxLine)}
Aligns  == {"c", "C", "r", "l", "x"}
Counts  == -1..MaxCount

\* lists of pairwise different entries: "B" + e-acute, "C" + 2 e-acute, "D", ...
PoolText(i) == <<65 + i>> \o Rep(233, i % 3)
TextLists   == {[i \in 1..n |-> PoolText(s + i)] : n \in 0..MaxLines, s \in 0..1}

\* texts for write_data_wrapped: printable ASCII that differs from place to
\* place, of lengths around the chunk boundaries and the 79-character cut,
\* beside the texts above
WrapText(n) == [i \in 1..n |-> 33 + (i % 90)]
WrapLens  == {1, 20, 21, 40, 41, 60, 61, 78, 79, 80, 81, 100}
WrapTexts == Texts \cup {WrapText(n) : n \in WrapLens}

\* byte parameters around the edges of the UTF-8 encoding lengths and of chr
Amounts == {-1, 0, 1, 4, 5, 127, 128, 129, 255, 256, 2047, 2048,
            55296, 65535, 65536, 1114111, 1114112}

(***************************************************************************)
(* The session.                                                            *)
(***************************************************************************)
NoText == <<>>

Call(op, text, line, align, count, lines, amount, error) ==
    [op |-> op, text |-> text, line |-> line, align |-> align, count |-> count,
     lines |-> lines, amount |-> amount, error |-> error, start |-> Len(trace)]

\* SMARTIE = Smartie()
Init ==
    /\ trace = init_events
    /\ last = [op |-> "__init__", text |-> NoText, line |-> None, align |-> "",
               count |-> 0, lines |-> <<>>, amount |-> 0, error |-> "none",
               start |-> 0]
    /\ calls = 0

BacklightOn ==
    /\ calls < MaxCalls
    /\ trace' = trace \o backlight_on
    /\ last' = Call("backlight_on", NoText, None, "", 0, <<>>, 0, "none")
    /\ calls' = calls + 1

BacklightOff ==
    /\ calls < MaxCalls
    /\ trace' = trace \o backlight_off
    /\ last' = Call("backlight_off", NoText, None, "", 0, <<>>, 0, "none")
    /\ calls' = calls + 1

BacklightToggleOn ==
    \E switch \in BOOLEAN :
        /\ calls < MaxCalls
        /\ trace' = trace \o backlight_toggle_on(switch)
        /\ last' = Call("backlight_toggle_on", NoText, None, "", IF switch THEN 1 ELSE 0, <<>>, 0, "none")
        /\ calls' = calls + 1

SetContrast ==
    \E amount \in Amounts :
        /\ calls < MaxCalls
        /\ trace' = trace \o set_contrast(amount)
        /\ last' = Call("set_contrast", NoText, None, "", 0, <<>>, amount, chr_error(amount))
        /\ calls' = calls + 1

ShowTemperature ==
    \E line \in Amounts :
        /\ calls < MaxCalls
        /\ trace' = trace \o show_temperature(line)
        /\ last' = Call("show_temperature", NoText, None, "", 0, <<>>, line, chr_error(line))
        /\ calls' = calls + 1

ClearScreen ==
    /\ calls < MaxCalls
    /\ trace' = trace \o clear_screen
    /\ last' = Call("clear_screen", NoText, None, "", 0, <<>>, 0, "none")
    /\ calls' = calls + 1

WriteLine ==
    \E data \in Texts, line \in Lines :
        /\ calls < MaxCalls
        /\ trace' = trace \o write_line(data, line)
        /\ last' = Call("write_line", data, line, "", 0, <<>>, 0, "none")
        /\ calls' = calls + 1

WriteLineAligned ==
    \E text \in Texts, line \in PassedLines, align \in Aligns :
        /\ calls < MaxCalls
        /\ trace' = trace \o write_line_aligned(text, line, align)
        /\ last' = Call("write_line_aligned", text, line, align, 0, <<>>, 0, "none")
        /\ calls' = calls + 1

WriteLineFlash ==
    \E text \in ShortTexts, line \in PassedLines, count \in Counts :
        /\ calls < MaxCalls
        /\ trace' = trace \o write_line_flash(text, line, count, "tick")
        /\ last' = Call("write_line_flash", text, line, "", count, <<>>, 0, "none")
        /\ calls' = calls + 1

WriteDataWrapped ==
    \E text \in WrapTexts :
        /\ calls < MaxCalls
        /\ trace' = trace \o write_data_wrapped(text)
        /\ last' = Call("write_data_wrapped", text, None, "", 0, <<>>, 0, "none")
        /\ calls' = calls + 1

WriteLines ==
    \E textlines \in TextLists :
        /\ calls < MaxCalls
        /\ trace' = trace \o write_lines(textlines)
        /\ last' = Call("write_lines", NoText, None, "", 0, textlines, 0, "none")
        /\ calls' = calls + 1

WriteLinesScroll ==
    \E textlines \in TextLists :
        /\ calls < MaxCalls
        /\ trace' = trace \o write_lines_scroll(textlines, "speed")
        /\ last' = Call("write_lines_scroll", NoText, None, "", 0, textlines, 0, "none")
        /\ calls' = calls + 1

Demo ==
    /\ calls < MaxCalls
    /\ trace' = trace \o demo
    /\ last' = Call("demo", NoText, None, "", 0, <<>>, 0, "none")
    /\ calls' = calls + 1

Next ==
    \/ BacklightOn
    \/ BacklightOff
    \/ BacklightToggleOn
    \/ SetContrast
    \/ ShowTemperature
    \/ ClearScreen
    \/ WriteLine
    \/ WriteLineAligned
    \/ WriteLineFlash
    \/ WriteDataWrapped
    \/ WriteLines
    \/ WriteLinesScroll
    \/ Demo

Spec == Init /\ [][Next]_vars

(***************************************************************************)
(* The command line: what __main__ does with the parsed arguments once     *)
(* SMARTIE = Smartie() has returned.  An argument that was not given is    *)
(* None; Python takes 0 and the empty string for false, like None.  An     *)
(* exception of set_contrast is not caught, so it ends the process.        *)
(***************************************************************************)
main_clear(clear) == IF clear THEN clear_screen ELSE <<>>

main_backlight(backlight) ==
    IF backlight = Some("on") THEN backlight_on
    ELSE IF backlight = Some("off") THEN backlight_off
    ELSE <<>>

\* if ARGS.contrast:
main_sets_contrast(contrast) == contrast # None /\ contrast[1] # 0

main_contrast(contrast) ==
    IF main_sets_contrast(contrast) THEN set_contrast(contrast[1]) ELSE <<>>

main_error(contrast) ==
    IF main_sets_contrast(contrast) THEN chr_error(contrast[1]) ELSE "none"

main_demo(flag) == IF flag THEN demo ELSE <<>>

main_message(message, line) ==
    IF message # None /\ message[1] # <<>>
    THEN IF line = None
         THEN write_data_wrapped(message[1])
         ELSE write_line(message[1], line)
    ELSE <<>>

main(clear, backlight, contrast, flag, message, line) ==
    main_clear(clear) \o main_backlight(backlight) \o main_contrast(contrast) \o
    (IF main_error(contrast) # "none" THEN <<>>
     ELSE main_demo(flag) \o main_message(message, line))

MainBacklights == {None, Some("on"), Some("off"), Some("dim")}
MainContrasts  == {None, Some(-1), Some(0), Some(5), Some(200)}
MainMessages   == {None, Some(<<>>), Some(<<72, 105>>), Some(WrapText(41))}
MainLines      == {None, Some(2), Some(MaxLine)}

Main ==
    \E clear \in BOOLEAN, backlight \in MainBacklights, contrast \in MainContrasts,
       flag \in BOOLEAN, message \in MainMessages, line \in MainLines :
        /\ last.op = "__init__"
        /\ trace' = trace \o main(clear, backlight, contrast, flag, message, line)
        /\ last' = [op |-> "__main__", clear |-> clear, backlight |-> backlight,
                    contrast |-> contrast, demo |-> flag, message |-> message,
                    line |-> line, error |-> main_error(contrast),
                    start |-> Len(trace)]
        /\ calls' = calls + 1

SpecMain == Init /\ [][Main]_vars

(***************************************************************************)
(* Vocabulary of the properties.                                           *)
(***************************************************************************)
\* the events of the most recent public call
Seg == SubSeq(trace, last.start + 1, Len(trace))

IsWrite(e) == e.kind = "write"
IsSleep(e, dur) == e.kind = "sleep" /\ e.dur = dur

\* the frames of a trace, in order
Frames(tr) ==
    LET ws == SelectSeq(tr, IsWrite) IN [k \in 1..Len(ws) |-> ws[k].bytes]

\* a trace without the pacing sleeps of command
IsNotDelay(e) == ~IsSleep(e, "DELAY")
NoDelay(tr) == SelectSeq(tr, IsNotDelay)

\* how many sleeps of the given duration a trace holds
SleepCount(tr, dur) == Cardinality({i \in 1..Len(tr) : IsSleep(tr[i], dur)})

\* the 7-bit bytes a text is displayed as
Ascii(text) == encode_ascii_ignore(normalize(text))

\* the 20-byte field the protocol expects for a text
FieldOf(text) ==
    [j \in 1..SCREEN_WIDTH |-> IF j <= Len(Ascii(text)) THEN Ascii(text)[j] ELSE SPACE]

BlankField == [j \in 1..SCREEN_WIDTH |-> SPACE]

\* the line an optional line argument stands for
InRange(line) == line # None /\ line[1] >= 1 /\ line[1] <= SCREEN_LINES
LineOf(line) == IF InRange(line) THEN line[1] ELSE 1

\* the protocol's write-line frame: FE 47 01 <line> <field>
LineFrame(l, field) == <<254, 71, 1, l>> \o field

IsLineFrame(b) == Len(b) >= 2 /\ b[1] = 254 /\ b[2] = 71

WellFormedLineFrame(b) ==
    /\ Len(b) = 4 + SCREEN_WIDTH
    /\ b[1] = 254 /\ b[2] = 71 /\ b[3] = 1
    /\ b[4] \in 1..SCREEN_LINES
    /\ \A j \in 5..Len(b) : b[j] \in 0..127

TextOps == {"write_line", "write_line_aligned", "write_line_flash",
            "write_data_wrapped", "write_lines", "write_lines_scroll",
            "clear_screen"}

\* what the display shows on each line after a trace: the field of the last
\* write-line frame sent to that line, <<>> while the line was never written
Display(tr) ==
    [l \in 1..SCREEN_LINES |->
        LET hits == {i \in 1..Len(tr) :
                        /\ IsWrite(tr[i])
                        /\ IsLineFrame(tr[i].bytes)
                        /\ Len(tr[i].bytes) >= 4
                        /\ tr[i].bytes[4] = l}
        IN  IF hits = {} THEN <<>>
            ELSE LET top == CHOOSE i \in hits : \A j \in hits : j <= i
                 IN  SubSeq(tr[top].bytes, 5, Len(tr[top].bytes))]

(***************************************************************************)
(* C1: every write-line frame on the transport is 24 bytes long: FE 47 01, *)
(* a line byte in 1..4 and 20 field bytes of 7-bit ASCII; every frame a    *)
(* text operation writes is such a frame; and write_line's field is the    *)
(* text's bytes padded with spaces on the right or cut to the first 20.    *)
(***************************************************************************)
C1_FrameShape ==
    /\ \A i \in 1..Len(trace) :
          IsWrite(trace[i]) /\ IsLineFrame(trace[i].bytes)
              => WellFormedLineFrame(trace[i].bytes)
    /\ last.op \in TextOps =>
          \A i \in 1..Len(Seg) : IsWrite(Seg[i]) => WellFormedLineFrame(Seg[i].bytes)
    /\ last.op = "write_line" =>
          /\ Len(Frames(Seg)) = 1
          /\ SubSeq(Frames(Seg)[1], 5, Len(Frames(Seg)[1])) = FieldOf(last.text)

\* write_line was given a text of more than 20 bytes and a line above 4
C1_Witness ==
    /\ last.op = "write_line"
    /\ Len(Ascii(last.text)) > SCREEN_WIDTH
    /\ last.line = Some(MaxLine)
    /\ Len(Frames(Seg)) = 1

(***************************************************************************)
(* C2: write_line with a line outside 1..4, or None, writes the very frame *)
(* of write_line with line 1; with a line in 1..4 the frame's line byte is *)
(* that line; and no line makes it raise.                                  *)
(***************************************************************************)
C2_LineCoercion ==
    last.op = "write_line" =>
        /\ last.error = "none"
        /\ Len(Frames(Seg)) = 1
        /\ ~InRange(last.line) =>
              /\ Frames(Seg)[1] = LineFrame(1, FieldOf(last.text))
              /\ Seg = write_line(last.text, Some(1))
        /\ InRange(last.line) => Frames(Seg)[1][4] = last.line[1]

\* write_line was called with a line below 1
C2_Witness ==
    /\ last.op = "write_line"
    /\ last.line = Some(-1)
    /\ Frames(Seg) = <<LineFrame(1, FieldOf(last.text))>>

(***************************************************************************)
(* C3: for every v in 0..255, set_contrast(v) writes the 3-byte frame      *)
(* FE 50 v and show_temperature(v) writes the 3-byte frame FE 57 v.        *)
(***************************************************************************)
C3_ByteParameter ==
    /\ last.op = "set_contrast" /\ last.amount \in 0..255 =>
          Frames(Seg) = << <<254, 80, last.amount>> >>
    /\ last.op = "show_temperature" /\ last.amount \in 0..255 =>
          Frames(Seg) = << <<254, 87, last.amount>> >>

(***************************************************************************)
(* C4: set_contrast with a level below 0 or above 255 fails with an error  *)
(* and writes nothing to the transport.                                    *)
(***************************************************************************)
C4_ContrastRange ==
    last.op = "set_contrast" /\ (last.amount < 0 \/ last.amount > 255) =>
        /\ last.error # "none"
        /\ Seg = <<>>

(***************************************************************************)
(* C5: write_line_flash with count >= 0 writes the text frame, sleeps      *)
(* tick, writes the blank frame and sleeps tick, count times over, and     *)
(* then writes the text frame once more with no tick sleep after it:       *)
(* 2*count + 1 frames to the one coerced line, 2*count tick sleeps, and    *)
(* the text left on that line of the display.                              *)
(***************************************************************************)
C5_FlashTrace ==
    last.op = "write_line_flash" /\ last.count >= 0 =>
        LET l     == LineOf(last.line)
            text  == Write(LineFrame(l, FieldOf(last.text)))
            blank == Write(LineFrame(l, BlankField))
        IN  /\ NoDelay(Seg) =
                  [k \in 1..(4 * last.count + 1) |->
                      IF k % 4 = 1 THEN text
                      ELSE IF k % 4 = 3 THEN blank
                      ELSE Sleep("tick")]
            /\ Len(Frames(Seg)) = 2 * last.count + 1
            /\ SleepCount(Seg, "tick") = 2 * last.count
            /\ Display(trace)[l] = FieldOf(last.text)

\* a visible text was flashed twice on line 2
C5_Witness ==
    /\ last.op = "write_line_flash"
    /\ last.count = 2
    /\ last.line = Some(2)
    /\ FieldOf(last.text) # BlankField
    /\ Len(Frames(Seg)) = 5

(***************************************************************************)
(* C6, as the specification states it: for a list of 5 or more entries     *)
(* write_lines_scroll displays len(lines) - SCREEN_LINES + 2 windows.      *)
(***************************************************************************)
C6_WindowCountPlusTwo ==
    last.op = "write_lines_scroll" /\ Len(last.lines) >= SCREEN_LINES + 1 =>
        SleepCount(Seg, "speed") = Len(last.lines) - SCREEN_LINES + 2

(***************************************************************************)
(* C6, amended: for a list of 5 or more entries write_lines_scroll         *)
(* displays len(lines) - SCREEN_LINES + 1 windows, each of 4 frames        *)
(* followed by one speed sleep.                                            *)
(***************************************************************************)
C6_WindowCount ==
    last.op = "write_lines_scroll" /\ Len(last.lines) >= SCREEN_LINES + 1 =>
        /\ SleepCount(Seg, "speed") = Len(last.lines) - SCREEN_LINES + 1
        /\ Len(Frames(Seg)) = SCREEN_LINES * (Len(last.lines) - SCREEN_LINES + 1)
        /\ IsSleep(Seg[Len(Seg)], "speed")

\* a list of 6 entries was scrolled
C6_Witness ==
    /\ last.op = "write_lines_scroll"
    /\ Len(last.lines) = 6
    /\ SleepCount(Seg, "speed") = 3

(***************************************************************************)
(* C7: for n >= 5 entries write_lines_scroll shows the windows of offsets  *)
(* 0, 1, ..., n-4 in that order; each window is the 4 entries              *)
(* lines[offset:offset+4] written as 4 frames to lines 1, 2, 3, 4 and      *)
(* followed by one speed sleep; every entry is in some window; and the     *)
(* display ends on the last four entries.                                  *)
(***************************************************************************)
C7_ScrollWindows ==
    last.op = "write_lines_scroll" /\ Len(last.lines) >= SCREEN_LINES + 1 =>
        LET n == Len(last.lines)
            shown == NoDelay(Seg)
        IN  /\ shown =
                  [k \in 1..((SCREEN_LINES + 1) * (n - SCREEN_LINES + 1)) |->
                      LET offset == (k - 1) \div (SCREEN_LINES + 1)
                          row    == ((k - 1) % (SCREEN_LINES + 1)) + 1
                      IN  IF row <= SCREEN_LINES
                          THEN Write(LineFrame(row, FieldOf(last.lines[offset + row])))
                          ELSE Sleep("speed")]
            /\ \A i \in 1..n : \E k \in 1..Len(shown) :
                  /\ IsWrite(shown[k])
                  /\ SubSeq(shown[k].bytes, 5, Len(shown[k].bytes)) = FieldOf(last.lines[i])
            /\ \A l \in 1..SCREEN_LINES :
                  Display(trace)[l] = FieldOf(last.lines[n - SCREEN_LINES + l])
            /\ n = SCREEN_LINES + 1 => SleepCount(Seg, "speed") = 2

\* a list of 5 entries was scrolled in two windows
C7_Witness ==
    /\ last.op = "write_lines_scroll"
    /\ Len(last.lines) = SCREEN_LINES + 1
    /\ Len(Frames(Seg)) = 2 * SCREEN_LINES
    /\ Display(trace)[SCREEN_LINES] = FieldOf(last.lines[SCREEN_LINES + 1])

(***************************************************************************)
(* C8: for a list of fewer than 5 entries write_lines_scroll leaves the    *)
(* very trace of write_lines on the same list, with no speed sleep.        *)
(***************************************************************************)
C8_ScrollShortList ==
    last.op = "write_lines_scroll" /\ Len(last.lines) < SCREEN_LINES + 1 =>
        /\ Seg = write_lines(last.lines)
        /\ SleepCount(Seg, "speed") = 0

\* a list of exactly 4 entries went through write_lines_scroll
C8_Witness ==
    /\ last.op = "write_lines_scroll"
    /\ Len(last.lines) = SCREEN_LINES
    /\ Len(Frames(Seg)) = SCREEN_LINES

(***************************************************************************)
(* C9: write_lines on n entries writes min(n, 4) frames; the k-th goes to  *)
(* line k with the field of the k-th entry; later entries are not written. *)
(***************************************************************************)
C9_WriteLines ==
    last.op = "write_lines" =>
        /\ Frames(Seg) =
              [k \in 1..Min(Len(last.lines), SCREEN_LINES) |->
                  LineFrame(k, FieldOf(last.lines[k]))]
        /\ last.error = "none"

\* write_lines was given more entries than the screen has lines
C9_Witness ==
    /\ last.op = "write_lines"
    /\ Len(last.lines) > SCREEN_LINES
    /\ Len(Frames(Seg)) = SCREEN_LINES

(***************************************************************************)
(* C10: clear_screen writes 4 frames, to lines 1, 2, 3, 4 in that order,   *)
(* each with the field of 20 spaces, and leaves every display line blank.  *)
(***************************************************************************)
C10_ClearScreen ==
    last.op = "clear_screen" =>
        /\ Frames(Seg) = [k \in 1..SCREEN_LINES |-> LineFrame(k, BlankField)]
        /\ \A l \in 1..SCREEN_LINES : Display(trace)[l] = BlankField

\* clear_screen has returned
C10_Witness ==
    /\ last.op = "clear_screen"
    /\ Len(Frames(Seg)) = SCREEN_LINES
    /\ Display(SubSeq(trace, 1, last.start)) # Display(trace)

(***************************************************************************)
(* C11: for a text of 7-bit characters write_data_wrapped keeps the first  *)
(* 79 characters d and writes ceil(len(d)/20) frames (none for the empty   *)
(* text); the i-th frame goes to line i with d[20(i-1) : 20i] padded to    *)
(* 20, so the chunks written, joined in order, are d.                      *)
(***************************************************************************)
IsAscii(text) == \A i \in 1..Len(text) : text[i] < 128

C12_DelayAfterEveryFrame ==
    \A i \in 1..Len(trace) :
        IsWrite(trace[i]) /\ i < Len(trace) => IsSleep(trace[i + 1], "DELAY")

(***************************************************************************)
(* C13: the init frame FE 56 00 is the first thing written to the          *)
(* transport and it is written once: no later frame is the init frame.     *)
(***************************************************************************)
InitFrame == <<254, 86, 0>>

C13_InitOnce ==
    /\ Len(trace) >= 1
    /\ trace[1] = Write(InitFrame)
    /\ \A i \in 2..Len(trace) : IsWrite(trace[i]) => trace[i].bytes # InitFrame

\* a public operation has written its frames after the init frame
C13_Witness ==
    /\ calls >= 1
    /\ Len(Frames(trace)) > SCREEN_LINES
    /\ Frames(trace)[1] = InitFrame

(***************************************************************************)
(* C14: the command line runs clear, backlight, contrast, demo, message in *)
(* that order, each one whenever its argument was supplied: -x gives       *)
(* clear_screen, -b on/off the backlight frame, every supplied -c value a  *)
(* set-contrast frame, -d the demo, and a supplied message                 *)
(* write_data_wrapped without -l and one write_line to the line with -l.   *)
(* Stated for the contrast values that are bytes, where nothing raises.    *)
(***************************************************************************)
C14_MainOrder ==
    last.op = "__main__" /\ (last.contrast = None \/ last.contrast[1] \in 0..255) =>
        Seg = (IF last.clear THEN clear_screen ELSE <<>>) \o
              (IF last.backlight = Some("on") THEN backlight_on
               ELSE IF last.backlight = Some("off") THEN backlight_off
               ELSE <<>>) \o
              (IF last.contrast # None THEN set_contrast(last.contrast[1]) ELSE <<>>) \o
              (IF last.demo THEN demo ELSE <<>>) \o
              (IF last.message = None THEN <<>>
               ELSE IF last.line = None THEN write_data_wrapped(last.message[1])
               ELSE write_line(last.message[1], last.line))

(***************************************************************************)
(* A transport that fails.  self.lcd.write raises in command, before       *)
(* time.sleep(DELAY); no method catches the exception, so it unwinds       *)
(* through the loops of the calling methods to the caller and nothing      *)
(* more of the call happens.  The refused frame is kept in the trace as a  *)
(* "fail" event.                                                           *)
(***************************************************************************)
Fail(bytes) == [kind |-> "fail", bytes |-> bytes, dur |-> "-"]

NumWrites(events) == Len(SelectSeq(events, IsWrite))

\* the place of the k-th write in events
WriteAt(events, k) ==
    CHOOSE i \in 1..Len(events) :
        IsWrite(events[i]) /\ NumWrites(SubSeq(events, 1, i)) = k

\* a failed write that is swallowed: the rest of the call goes on
FailAt_goes_on(events, k) ==
    SubSeq(events, 1, WriteAt(events, k) - 1) \o
    <<Fail(events[WriteAt(events, k)].bytes)>> \o
    SubSeq(events, WriteAt(events, k) + 1, Len(events))

\* what a call does when its k-th write raises
FailAt(events, k) ==
    SubSeq(events, 1, WriteAt(events, k) - 1) \o
    <<Fail(events[WriteAt(events, k)].bytes)>>

BacklightOffFails ==
    /\ calls < MaxCalls
    /\ trace' = trace \o FailAt(backlight_off, 1)
    /\ last' = Call("backlight_off", NoText, None, "", 0, <<>>, 0, "SerialException")
    /\ calls' = calls + 1

ClearScreenFails ==
    \E k \in 1..NumWrites(clear_screen) :
        /\ calls < MaxCalls
        /\ trace' = trace \o FailAt(clear_screen, k)
        /\ last' = Call("clear_screen", NoText, None, "", 0, <<>>, 0, "SerialException")
        /\ calls' = calls + 1

WriteLineFlashFails ==
    \E text \in {Rep(65, 2)}, line \in PassedLines, count \in Counts :
        \E k \in 1..NumWrites(write_line_flash(text, line, count, "tick")) :
            /\ calls < MaxCalls
            /\ trace' = trace \o FailAt(write_line_flash(text, line, count, "tick"), k)
            /\ last' = Call("write_line_flash", text, line, "", count, <<>>, 0,
                            "SerialException")
            /\ calls' = calls + 1

WriteLinesFails ==
    \E textlines \in TextLists :
        \E k \in 1..NumWrites(write_lines(textlines)) :
            /\ calls < MaxCalls
            /\ trace' = trace \o FailAt(write_lines(textlines), k)
            /\ last' = Call("write_lines", NoText, None, "", 0, textlines, 0,
                            "SerialException")
            /\ calls' = calls + 1

WriteLinesScrollFails ==
    \E textlines \in TextLists :
        \E k \in 1..NumWrites(write_lines_scroll(textlines, "speed")) :
            /\ calls < MaxCalls
            /\ trace' = trace \o FailAt(write_lines_scroll(textlines, "speed"), k)
            /\ last' = Call("write_lines_scroll", NoText, None, "", 0, textlines, 0,
                            "SerialException")
            /\ calls' = calls + 1

NextFail ==
    \/ BacklightOff
    \/ ClearScreen
    \/ WriteLineFlash
    \/ WriteLines
    \/ WriteLinesScroll
    \/ BacklightOffFails
    \/ ClearScreenFails
    \/ WriteLineFlashFails
    \/ WriteLinesFails
    \/ WriteLinesScrollFails

SpecFail == Init /\ [][NextFail]_vars

\* what the most recent call does on a transport that does not fail
Healthy ==
    CASE last.op = "backlight_off" -> backlight_off
      [] last.op = "clear_screen" -> clear_screen
      [] last.op = "write_line_flash" ->
            write_line_flash(last.text, last.line, last.count, "tick")
      [] last.op = "write_lines" -> write_lines(last.lines)
      [] last.op = "write_lines_scroll" -> write_lines_scroll(last.lines, "speed")
      [] OTHER -> <<>>

(***************************************************************************)
(* C15: when a transport write fails in an operation, the error reaches    *)
(* the caller; the refused frame is the last event of the call (it is not  *)
(* tried again, no DELAY sleep follows it, and no later frame of the       *)
(* operation is written); and everything before it is there as on a        *)
(* healthy transport.  A call that reports no error has run in full.       *)
(***************************************************************************)
C15_WriteFailure ==
    /\ last.error = "SerialException" =>
          /\ Seg # <<>>
          /\ Len(Seg) <= Len(Healthy)
          /\ Seg[Len(Seg)].kind = "fail"
          /\ Healthy[Len(Seg)] = Write(Seg[Len(Seg)].bytes)
          /\ \A i \in 1..(Len(Seg) - 1) : Seg[i] = Healthy[i]
          /\ SubSeq(trace, 1, last.start) \o Seg = trace
    /\ last.error # "SerialException" /\ last.op # "__init__" =>
          /\ Seg = Healthy
          /\ \A i \in 1..Len(Seg) : Seg[i].kind # "fail"

\* the third write of clear_screen failed: two frames are out, the third is not
C15_Witness ==
    /\ last.op = "clear_screen"
    /\ last.error = "SerialException"
    /\ Len(Frames(Seg)) = 2
    /\ Seg[Len(Seg)] = Fail(LineFrame(3, BlankField))

(***************************************************************************)
(* C16: for a text of n <= 20 7-bit characters write_line_aligned writes   *)
(* one frame, to the coerced line, whose field holds the text in one piece *)
(* and spaces elsewhere: 20-n spaces before it for "r", after it for "l"   *)
(* and any unknown mode, and for "c" on both sides with counts that differ *)
(* by at most 1 (9 and 9 for a text of 2).  The mode's case is ignored.    *)
(***************************************************************************)
C16_Aligned ==
    last.op = "write_line_aligned" /\ IsAscii(last.text)
        /\ Len(last.text) <= SCREEN_WIDTH =>
        LET n     == Len(last.text)
            pad   == SCREEN_WIDTH - n
            frame == Frames(Seg)[1]
            field == SubSeq(frame, 5, Len(frame))
        IN  /\ Len(Frames(Seg)) = 1
            /\ frame[4] = LineOf(last.line)
            /\ last.align \in {"r", "R"} => field = Rep(SPACE, pad) \o last.text
            /\ last.align \in {"c", "C"} =>
                  /\ \E lead \in 0..pad :
                        /\ field = Rep(SPACE, lead) \o last.text \o Rep(SPACE, pad - lead)
                        /\ lead - (pad - lead) \in -1..1
                  /\ n = 2 => field = Rep(SPACE, 9) \o last.text \o Rep(SPACE, 9)
            /\ last.align \notin {"r", "R", "c", "C"} =>
                  field = last.text \o Rep(SPACE, pad)

\* a text of 2 characters was centred with the mode in upper case
C16_Witness ==
    /\ last.op = "write_line_aligned"
    /\ last.text = Rep(65, 2)
    /\ last.align = "C"
    /\ Frames(Seg)[1][4 + 10] = 65

(***************************************************************************)
(* C20: for every text and line, write_line_aligned with mode "l" writes   *)
(* the very frame of write_line with that text and line.                   *)
(***************************************************************************)
C20_LeftIsPlain ==
    last.op = "write_line_aligned" /\ last.align \in {"l", "L"} =>
        /\ Seg = write_line(last.text, last.line)
        /\ Frames(Seg) = <<LineFrame(LineOf(last.line), FieldOf(last.text))>>

\* a text of 20 characters, one of them dropped by the encoding, was written
\* left-aligned
C20_Witness ==
    /\ last.op = "write_line_aligned"
    /\ last.align = "l"
    /\ Len(last.text) = SCREEN_WIDTH
    /\ Len(Ascii(last.text)) = SCREEN_WIDTH - 1
    /\ Len(Frames(Seg)) = 1

(***************************************************************************)
(* C17: for every text write_data_wrapped writes at most 4 frames, one per *)
(* chunk of the first 79 characters, and the i-th frame goes to line i:    *)
(* every row handed to write_line is in 1..4, none is coerced to line 1,   *)
(* and no two frames of the call go to the same line.                      *)
(***************************************************************************)
C17_WrappedRows ==
    last.op = "write_data_wrapped" =>
        LET F == Frames(Seg)
            kept == Min(Len(last.text), 79)
        IN  /\ Len(F) = (kept + SCREEN_WIDTH - 1) \div SCREEN_WIDTH
            /\ Len(F) <= SCREEN_LINES
            /\ \A i \in 1..Len(F) : F[i][4] = i
            /\ \A i, j \in 1..Len(F) : i # j => F[i][4] # F[j][4]

\* a text of 100 characters was wrapped onto lines 1..4
C17_Witness ==
    /\ last.op = "write_data_wrapped"
    /\ Len(last.text) = 100
    /\ Len(Frames(Seg)) = SCREEN_LINES
    /\ Frames(Seg)[SCREEN_LINES][4] = SCREEN_LINES

(***************************************************************************)
(* C18: write_lines with k < 4 entries writes frames for lines 1..k only,  *)
(* so display lines k+1..4 show after the call what they showed before     *)
(* it; with no entries it writes nothing.  The same holds for              *)
(* write_lines_scroll with fewer than 5 entries.                           *)
(***************************************************************************)
(***************************************************************************)
(* Sessions that only display lists, one call longer than the sessions of  *)
(* Spec, so that a list is displayed over what an earlier list left on the *)
(* screen.                                                                 *)
(***************************************************************************)
WriteLinesOver ==
    \E textlines \in TextLists :
        /\ calls < MaxCalls + 1
        /\ trace' = trace \o write_lines(textlines)
        /\ last' = Call("write_lines", NoText, None, "", 0, textlines, 0, "none")
        /\ calls' = calls + 1

WriteLinesScrollOver ==
    \E textlines \in TextLists :
        /\ calls < MaxCalls + 1
        /\ trace' = trace \o write_lines_scroll(textlines, "speed")
        /\ last' = Call("write_lines_scroll", NoText, None, "", 0, textlines, 0, "none")
        /\ calls' = calls + 1

NextLists ==
    \/ WriteLinesOver
    \/ WriteLinesScrollOver

SpecLists == Init /\ [][NextLists]_vars

WritesLinesOnce ==
    \/ last.op = "write_lines"
    \/ last.op = "write_lines_scroll" /\ Len(last.lines) < SCREEN_LINES + 1

C18_StaleLines ==
    /\ WritesLinesOnce /\ last.lines = <<>> => Seg = <<>>
    /\ WritesLinesOnce =>
          LET k == Min(Len(last.lines), SCREEN_LINES)
              before == Display(SubSeq(trace, 1, last.start))
          IN  /\ \A i \in 1..Len(Frames(Seg)) : Frames(Seg)[i][4] \in 1..k
              /\ \A l \in 1..k : \E i \in 1..Len(Frames(Seg)) : Frames(Seg)[i][4] = l
              /\ \A l \in (k + 1)..SCREEN_LINES : Display(trace)[l] = before[l]

\* write_lines was given two entries over a full screen: lines 1 and 2
\* changed, line 3 still shows the text it showed before
C18_Witness ==
    /\ last.op = "write_lines"
    /\ Len(last.lines) = 2
    /\ Display(trace)[2] = FieldOf(last.lines[2])
    /\ Display(SubSeq(trace, 1, last.start))[2] # FieldOf(last.lines[2])
    /\ Display(trace)[3] # <<>>
    /\ Display(trace)[3] # BlankField
    /\ Display(trace)[3] = Display(SubSeq(trace, 1, last.start))[3]

(***************************************************************************)
(* The two loops of the class, one iteration at a time.  `last` carries    *)
(* the loop variable (i in write_line_flash, startitem in                  *)
(* write_lines_scroll) and the place of the call: "while" at the loop      *)
(* test, "done" once the method has returned.  A session here is one call, *)
(* followed from its entry to its return.  The interpreter runs a called   *)
(* method on, so a call that has begun takes its next step.                *)
(***************************************************************************)
LoopCall(op, text, line, count, lines, i, pc, start) ==
    [op |-> op, text |-> text, line |-> line, align |-> "", count |-> count,
     lines |-> lines, amount |-> 0, error |-> "none", start |-> start,
     i |-> i, pc |-> pc]

\* where the call is; "none" before the first call
Pc == IF "pc" \in DOMAIN last THEN last.pc ELSE "none"

\* write_line_flash is called: i = 0
FlashEnter ==
    \E text \in ShortTexts, line \in PassedLines, count \in Counts :
        /\ Pc = "none"
        /\ trace' = trace
        /\ last' = LoopCall("write_line_flash", text, line, count, <<>>, 0, "while",
                            Len(trace))
        /\ calls' = calls + 1

\* the loop body of write_line_flash that runs while i <= count
FlashBody_once_more ==
    /\ Pc = "while" /\ last.op = "write_line_flash"
    /\ last.i <= last.count
    /\ trace' = trace \o write_line(last.text, last.line) \o <<Sleep("tick")>> \o
                write_line(<<>>, last.line) \o <<Sleep("tick")>>
    /\ last' = [last EXCEPT !.i = @ + 1]
    /\ UNCHANGED calls

\* while i < count: the loop body, and i += 1
FlashBody ==
    /\ Pc = "while" /\ last.op = "write_line_flash"
    /\ last.i < last.count
    /\ trace' = trace \o write_line(last.text, last.line) \o <<Sleep("tick")>> \o
                write_line(<<>>, last.line) \o <<Sleep("tick")>>
    /\ last' = [last EXCEPT !.i = @ + 1]
    /\ UNCHANGED calls

\* the loop test fails: the last write_line, and the method returns
FlashExit ==
    /\ Pc = "while" /\ last.op = "write_line_flash"
    /\ ~(last.i < last.count)
    /\ trace' = trace \o write_line(last.text, last.line)
    /\ last' = [last EXCEPT !.pc = "done"]
    /\ UNCHANGED calls

\* write_lines_scroll is called: a short list goes to write_lines and the
\* method returns, a longer one starts the loop with startitem = 0
ScrollEnter ==
    \E textlines \in TextLists :
        /\ Pc = "none"
        /\ IF Len(textlines) < SCREEN_LINES + 1
           THEN /\ trace' = trace \o write_lines(textlines)
                /\ last' = LoopCall("write_lines_scroll", NoText, None, 0, textlines,
                                    0, "done", Len(trace))
           ELSE /\ trace' = trace
                /\ last' = LoopCall("write_lines_scroll", NoText, None, 0, textlines,
                                    0, "while", Len(trace))
        /\ calls' = calls + 1

\* while startitem < (numberoflines-(SCREEN_LINES-1)): one window
ScrollBody ==
    /\ Pc = "while" /\ last.op = "write_lines_scroll"
    /\ last.i < Len(last.lines) - (SCREEN_LINES - 1)
    /\ trace' = trace \o
                write_lines(Slice(last.lines, last.i, last.i + SCREEN_LINES)) \o
                <<Sleep("speed")>>
    /\ last' = [last EXCEPT !.i = @ + 1]
    /\ UNCHANGED calls

\* the loop test fails: the method returns
ScrollExit ==
    /\ Pc = "while" /\ last.op = "write_lines_scroll"
    /\ ~(last.i < Len(last.lines) - (SCREEN_LINES - 1))
    /\ last' = [last EXCEPT !.pc = "done"]
    /\ UNCHANGED <<trace, calls>>

LoopStep == FlashBody \/ FlashExit \/ ScrollBody \/ ScrollExit

NextLoops ==
    \/ FlashEnter
    \/ FlashBody
    \/ FlashExit
    \/ ScrollEnter
    \/ ScrollBody
    \/ ScrollExit

SpecLoops == Init /\ [][NextLoops]_vars /\ WF_vars(LoopStep)

(***************************************************************************)
(* C19: write_line_flash and write_lines_scroll always return.  For every  *)
(* count, write_line_flash returns after 2*max(count,0) + 1 frame writes:  *)
(* one text frame and no tick sleep when count <= 0.  write_lines_scroll   *)
(* returns after finitely many windows.  The loop variable goes up by one  *)
(* on every iteration.                                                     *)
(***************************************************************************)
Running == Pc = "while"
Returned == Pc = "done"

FlashReturned ==
    Returned /\ last.op = "write_line_flash" =>
        LET flashes == IF last.count > 0 THEN last.count ELSE 0
        IN  /\ Len(Frames(Seg)) = 2 * flashes + 1
            /\ last.i = flashes
            /\ SleepCount(Seg, "tick") = 2 * flashes
            /\ last.count <= 0 =>
                  Seg = <<Write(LineFrame(LineOf(last.line), FieldOf(last.text))),
                          Sleep("DELAY")>>
            /\ Seg = write_line_flash(last.text, last.line, last.count, "tick")

ScrollReturned ==
    Returned /\ last.op = "write_lines_scroll" =>
        /\ last.i <= Len(last.lines)
        /\ SleepCount(Seg, "speed") = last.i
        /\ Seg = write_lines_scroll(last.lines, "speed")

C19_Termination ==
    /\ Running ~> Returned
    /\ [][Running /\ Running' => last'.i = last.i + 1]_vars
    /\ [](FlashReturned /\ ScrollReturned)

\* write_line_flash has returned from a call with a negative count
C19_Witness ==
    /\ Returned
    /\ last.op = "write_line_flash"
    /\ last.count < 0
    /\ Len(Frames(Seg)) = 1

====
